---- MODULE Spec2Model ----
(***************************************************************************)
(* A model of src/src/svg.hpp: the Element tree (attributes, children,     *)
(* to_string), the Path command mutators and the Line geometry accessors.  *)
(*                                                                         *)
(* A std::string is a sequence of one-character strings, so that           *)
(* concatenation, prefixes and parsing are computed and not assumed.       *)
(* A std::map<string,string> is a function whose DOMAIN is its key set;    *)
(* iteration follows the keys' lexicographic order, as std::map does.      *)
(***************************************************************************)
EXTENDS Integers, Sequences, FiniteSets, TLC

VARIABLES
    objs,      \* the Element objects: caller-owned values and make_shared copies
    path,      \* one Path object: its d attribute and its start point
    pathOp,    \* the last operation applied to the Path
    line,      \* one Line or Rect object: its class and its attribute map
    lineOp,    \* the last operation applied to it
    lineRet,   \* what that operation returned (or that it threw)
    calls      \* the number of calls made so far

vars == <<objs, path, pathOp, line, lineOp, lineRet, calls>>

---------------------------------------------------------------------------
(* Bounds of the model *)

\* number of calls made on the Element tree
MaxCalls == 3
\* number of calls made on the Path
MaxCmds == 3

---------------------------------------------------------------------------
(* std::string helpers *)

\* the characters used, in ASCII order (std::map compares keys bytewise)
Ascii ==
    << "\t", "\n", " ", "\"", "-", ".", "/",
       "0", "1", "2", "3", "4", "5", "6", "7", "8", "9",
       ":", "<", "=", ">", "L", "M",
       "a", "b", "c", "d", "e", "f", "g", "h", "i", "j", "k", "l", "m",
       "n", "o", "p", "q", "r", "s", "t", "u", "v", "w", "x", "y", "z" >>

Ord(c) == CHOOSE i \in 1..Len(Ascii) : Ascii[i] = c

RECURSIVE LexLess(_, _)
\* operator< of std::string
LexLess(s, t) ==
    IF t = <<>> THEN FALSE
    ELSE IF s = <<>> THEN TRUE
    ELSE IF Head(s) # Head(t) THEN Ord(Head(s)) < Ord(Head(t))
    ELSE LexLess(Tail(s), Tail(t))

RECURSIVE Repeat(_, _)
\* std::string(n, c)
Repeat(n, c) == IF n = 0 THEN <<>> ELSE <<c>> \o Repeat(n - 1, c)

IsPrefix(s, t) == Len(s) <= Len(t) /\ SubSeq(t, 1, Len(s)) = s

EndsWith(t, s) == Len(s) <= Len(t) /\ SubSeq(t, Len(t) - Len(s) + 1, Len(t)) = s

\* s occurs in t at offset i (1-based)
OccursAt(t, s, i) == i >= 1 /\ i + Len(s) - 1 <= Len(t) /\ SubSeq(t, i, i + Len(s) - 1) = s

Contains(t, s) == \E i \in 1..(Len(t) + 1) : OccursAt(t, s, i)

RECURSIVE SortedKeys(_)
\* the keys of a std::map in iteration order
SortedKeys(K) ==
    IF K = {} THEN <<>>
    ELSE LET m == CHOOSE k \in K : \A j \in K \ {k} : LexLess(k, j)
         IN  <<m>> \o SortedKeys(K \ {m})

\* attr[key] = value
Put(a, k, v) == [x \in (DOMAIN a) \cup {k} |-> IF x = k THEN v ELSE a[x]]

EmptyMap == [x \in {} |-> <<>>]

---------------------------------------------------------------------------
(* std::to_string of numbers.  A float is held in quarters (Scale = 4), so *)
(* 7.5 is 30; an int is held as itself.                                    *)

Scale == 4

Digit(n) == <<"0", "1", "2", "3", "4", "5", "6", "7", "8", "9">>[n + 1]

RECURSIVE NatToString(_)
NatToString(n) == IF n < 10 THEN <<Digit(n)>> ELSE NatToString(n \div 10) \o <<Digit(n % 10)>>

\* std::to_string(int): "%d"
IntToString(n) == IF n < 0 THEN <<"-">> \o NatToString(-n) ELSE NatToString(n)

Abs(n) == IF n < 0 THEN -n ELSE n

\* the six decimals "%f" prints for a number of quarters
Frac6(q) ==
    CASE q = 0 -> <<"0", "0", "0", "0", "0", "0">>
      [] q = 1 -> <<"2", "5", "0", "0", "0", "0">>
      [] q = 2 -> <<"5", "0", "0", "0", "0", "0">>
      [] q = 3 -> <<"7", "5", "0", "0", "0", "0">>

\* std::to_string(float) and std::to_string(double): "%f"
FloatToString(f) ==
    (IF f < 0 THEN <<"-">> ELSE <<>>)
        \o NatToString(Abs(f) \div Scale) \o <<".">> \o Frac6(Abs(f) % Scale)

\* a number as the caller passes it: an int, or a float/double in quarters
Num(type, v) == [type |-> type, v |-> v]

\* std::to_string(T), T = int or float
ToText(n) == IF n.type = "int" THEN IntToString(n.v) ELSE FloatToString(n.v)

\* conversion of T to float (the type of x_start, y_start), in quarters
ToFloat(n) == IF n.type = "int" THEN n.v * Scale ELSE n.v

---------------------------------------------------------------------------
(* The Element tree *)

Kinds == {"SVG", "Path", "Text", "Group", "Line", "Rect", "Circle"}

\* tag() of each class
Tag(kind) ==
    CASE kind = "SVG"    -> <<"s", "v", "g">>
      [] kind = "Path"   -> <<"p", "a", "t", "h">>
      [] kind = "Text"   -> <<"t", "e", "x", "t">>
      [] kind = "Group"  -> <<"g">>
      [] kind = "Line"   -> <<"l", "i", "n", "e">>
      [] kind = "Rect"   -> <<"r", "e", "c", "t">>
      [] kind = "Circle" -> <<"c", "i", "r", "c", "l", "e">>

\* the default argument of SVG's constructor
SvgDefaultAttr == (<<"x", "m", "l", "n", "s">> :> 
        <<"h", "t", "t", "p", ":", "/", "/", "w", "w", "w", ".", "w", "3", ".", "o", "r", "g", "/", "2", "0", "0", "0", "/", "s", "v", "g">>)

\* attribute names and text values the callers of set_attr pass
Keys == {<<"i", "d">>}
Values == {<<"1">>, <<"\"">>}
\* content text of a Text
Contents == {<<"h", "i">>, <<"<">>}

\* An object of the model.  kind, attr, content and children are the class's
\* members; heap tells a make_shared copy from a value the caller constructed.
\* from and args are history: the value this object was copied from, and the
\* values passed to the add_child calls that built its children list.
Node(kind, attr, content) ==
    [kind |-> kind, attr |-> attr, content |-> content, children |-> <<>>,
     heap |-> FALSE, from |-> 0, args |-> <<>>]

\* the constructors: Element(), SVG(), Text(x, y, content) with x = y = 0
New(kind, content) ==
    CASE kind = "SVG"  -> Node(kind, SvgDefaultAttr, <<>>)
      [] kind = "Text" -> Node(kind, Put(Put(EmptyMap, <<"x">>, FloatToString(0)),
                                        <<"y">>, FloatToString(0)), content)
      [] OTHER         -> Node(kind, EmptyMap, <<>>)

StackIds(h) == {i \in 1..Len(h) : ~h[i].heap}

\* std::make_shared<T>(node): the copy constructor copies attr and content,
\* and copies the vector of shared_ptr, so the copy's children are the very
\* objects the original's children are
CopyOf(h, n) == [h[n] EXCEPT !.heap = TRUE]

\* Element::set_attr, text specialisations
set_attr(h, o, k, v) == [h EXCEPT ![o].attr = Put(@, k, v)]

\* a list that grows at the front
PushFront(children, p) == <<p>> \o children

\* children.push_back(p)
PushBack(children, p) == Append(children, p)

\* Element::add_child(T node), nodes the copies of the arguments as the call
\* made them: each is stored as a fresh object and appended to this->children.
\* add_child(node, args...) is add_child(node) then add_child(args...).
RECURSIVE add_child(_, _, _)
add_child(h, p, nodes) ==
    IF nodes = <<>> THEN h
    ELSE LET id == Len(h) + 1
             h1 == Append(h, Head(nodes))
             h2 == [h1 EXCEPT ![p].children = PushBack(@, id),
                              ![p].args = Append(@, Head(nodes).from)]
         IN  add_child(h2, p, Tail(nodes))

---------------------------------------------------------------------------
(* to_string *)

\* what a call returns whose recursion never ends
Overflow == <<"stack overflow">>

Tabs(n) == Repeat(n, "\t")

RECURSIVE AttribText(_, _)
\* the macro to_string_attrib, over the keys in iteration order
AttribText(a, ks) ==
    IF ks = <<>> THEN <<>>
    ELSE <<" ">> \o Head(ks) \o <<"=">> \o <<"\"">> \o a[Head(ks)] \o <<"\"">>
             \o AttribText(a, Tail(ks))

to_string_attrib(a) == AttribText(a, SortedKeys(DOMAIN a))

\* an end without the blank
SelfCloseNoBlank == <<"/", ">">>

\* the end of an element without children
SelfClose == <<" ", "/", ">">>

\* the closing tag
CloseTag(tag) == <<"<", "/">> \o tag \o <<">">>

\* Text::to_string
TextToString(n, indent_level) ==
    Tabs(indent_level) \o <<"<", "t", "e", "x", "t">> \o to_string_attrib(n.attr)
        \o <<">">> \o n.content \o CloseTag(<<"t", "e", "x", "t">>)

RECURSIVE to_string(_, _, _, _)
RECURSIVE ChildrenText(_, _, _, _)

\* the loop of Element::to_string over children
ChildrenText(h, cs, indent_level, fuel) ==
    IF cs = <<>> THEN <<>>
    ELSE LET first == to_string(h, Head(cs), indent_level, fuel)
             rest  == ChildrenText(h, Tail(cs), indent_level, fuel)
         IN  IF first = Overflow \/ rest = Overflow THEN Overflow
             ELSE first \o <<"\n">> \o rest

\* Element::to_string, dispatched on the class (Text overrides it).  fuel is
\* the recursion depth left: more nested calls than there are objects means a
\* cycle, on which the recursion of the code never returns.
to_string(h, o, indent_level, fuel) ==
    IF fuel = 0 THEN Overflow
    ELSE IF h[o].kind = "Text" THEN TextToString(h[o], indent_level)
    ELSE LET indent == Tabs(indent_level)
             ret    == indent \o <<"<">> \o Tag(h[o].kind) \o to_string_attrib(h[o].attr)
         IN  IF h[o].children # <<>>
             THEN LET kids == ChildrenText(h, h[o].children, indent_level + 1, fuel - 1)
                  IN  IF kids = Overflow THEN Overflow
                      ELSE ret \o <<">", "\n">> \o kids \o indent \o CloseTag(Tag(h[o].kind))
             ELSE ret \o SelfClose

\* o->to_string(indent_level) in the current state
Serialize(o, indent_level) == to_string(objs, o, indent_level, Len(objs) + 1)

---------------------------------------------------------------------------
(* The operations on the tree *)

\* T node; (a constructor call)
Construct(kind, content) ==
    /\ objs' = Append(objs, [New(kind, content) EXCEPT !.from = Len(objs) + 1])
    /\ calls < MaxCalls
    /\ calls' = calls + 1
    /\ UNCHANGED <<path, pathOp, line, lineOp, lineRet>>

\* o.set_attr(k, v), o a value of the caller or a pointer add_child returned
SetAttr(o, k, v) ==
    /\ objs' = set_attr(objs, o, k, v)
    /\ calls < MaxCalls
    /\ calls' = calls + 1
    /\ UNCHANGED <<path, pathOp, line, lineOp, lineRet>>

\* p.add_child(n): n is passed by value
AddChild(p, n) ==
    /\ objs' = add_child(objs, p, <<CopyOf(objs, n)>>)
    /\ calls < MaxCalls
    /\ calls' = calls + 1
    /\ UNCHANGED <<path, pathOp, line, lineOp, lineRet>>

\* p.add_child(n1, n2): both are passed by value, copied when the call is made
AddChildren(p, n1, n2) ==
    /\ objs' = add_child(objs, p, <<CopyOf(objs, n1), CopyOf(objs, n2)>>)
    /\ calls < MaxCalls
    /\ calls' = calls + 1
    /\ UNCHANGED <<path, pathOp, line, lineOp, lineRet>>

TreeConstruct == \E k \in Kinds : \E c \in Contents :
    /\ (k # "Text" => c = <<"h", "i">>)
    /\ Construct(k, c)

TreeSetAttr == \E o \in 1..Len(objs) : \E k \in Keys : \E v \in Values : SetAttr(o, k, v)

TreeAddChild == \E p \in 1..Len(objs) : \E n \in StackIds(objs) : AddChild(p, n)

TreeAddChildren == \E p \in 1..Len(objs) : \E n1, n2 \in StackIds(objs) : AddChildren(p, n1, n2)

LineIdle == [kind |-> "Line", attr |-> EmptyMap]

NoRet == [tag |-> "none", x |-> 0, y |-> 0, arg |-> 0, text |-> <<>>]

\* Path(): attr is empty; x_start and y_start are not initialised (init is
\* FALSE until start() assigns them)
PathIdle == [d |-> <<>>, has_d |-> FALSE, x_start |-> 0, y_start |-> 0, init |-> FALSE]

InitTree ==
    /\ objs = <<>>
    /\ path = PathIdle
    /\ pathOp = "none"
    /\ line = LineIdle
    /\ lineOp = "none"
    /\ lineRet = NoRet
    /\ calls = 0

NextTree == TreeConstruct \/ TreeSetAttr \/ TreeAddChild \/ TreeAddChildren

SpecTree == InitTree /\ [][NextTree]_vars

---------------------------------------------------------------------------
(* Reading markup back: the grammar                                        *)
(*   ELEMENT := "<" TAG ATTR* ("/>" | ">" (text | ELEMENT)* "</" TAG ">")  *)
(*   ATTR    := space NAME "=" QUOTE VALUE QUOTE                           *)
(* with VALUE free of QUOTE and "<", and text free of "<".                 *)

At(s, i) == IF i \in 1..Len(s) THEN s[i] ELSE "EOF"

NameChars ==
    { "0", "1", "2", "3", "4", "5", "6", "7", "8", "9", ":",
      "a", "b", "c", "d", "e", "f", "g", "h", "i", "j", "k", "l", "m",
      "n", "o", "p", "q", "r", "s", "t", "u", "v", "w", "x", "y", "z" }

Blanks == {" ", "\t", "\n"}

RECURSIVE ReadName(_, _)
\* the index after the name that starts at i
ReadName(s, i) == IF At(s, i) \in NameChars THEN ReadName(s, i + 1) ELSE i

RECURSIVE SkipBlanks(_, _)
SkipBlanks(s, i) == IF At(s, i) \in Blanks THEN SkipBlanks(s, i + 1) ELSE i

RECURSIVE ReadValue(_, _)
\* the index of the quote that ends the value starting at i, 0 if there is none
ReadValue(s, i) ==
    CASE At(s, i) = "\""          -> i
      [] At(s, i) \in {"EOF", "<"} -> 0
      [] OTHER                     -> ReadValue(s, i + 1)

Failed == [ok |-> FALSE, pos |-> 0, tag |-> <<>>, attrs |-> EmptyMap]

RECURSIVE ParseAttrs(_, _, _)
\* ATTR* from index i: where it ends and the attributes read
ParseAttrs(s, i, seen) ==
    LET j == SkipBlanks(s, i)
        k == ReadName(s, j)
        q == ReadValue(s, k + 2)
    IN  IF At(s, j) \notin NameChars
        THEN [ok |-> TRUE, pos |-> j, tag |-> <<>>, attrs |-> seen]
        ELSE IF j = i \/ At(s, k) # "=" \/ At(s, k + 1) # "\"" \/ q = 0
                \/ SubSeq(s, j, k - 1) \in DOMAIN seen
        THEN Failed
        ELSE ParseAttrs(s, q + 1, Put(seen, SubSeq(s, j, k - 1), SubSeq(s, k + 2, q - 1)))

RECURSIVE ParseElement(_, _)
RECURSIVE ParseContent(_, _, _)

\* the content of an element named tag, from index i to its closing tag:
\* the index after the closing tag, 0 if the content is not well formed
ParseContent(s, i, tag) ==
    CASE At(s, i) = "EOF" -> 0
      [] At(s, i) = "<" /\ At(s, i + 1) = "/" ->
            LET k == ReadName(s, i + 2)
            IN  IF SubSeq(s, i + 2, k - 1) = tag /\ At(s, k) = ">" THEN k + 1 ELSE 0
      [] At(s, i) = "<" /\ At(s, i + 1) # "/" ->
            LET e == ParseElement(s, i)
            IN  IF e.ok THEN ParseContent(s, e.pos, tag) ELSE 0
      [] OTHER -> ParseContent(s, i + 1, tag)

\* the element that starts at index i
ParseElement(s, i) ==
    LET k == ReadName(s, i + 1)
        a == ParseAttrs(s, k, EmptyMap)
        j == a.pos
        name == SubSeq(s, i + 1, k - 1)
    IN  IF At(s, i) # "<" \/ k = i + 1 \/ ~a.ok THEN Failed
        ELSE IF At(s, j) = "/" /\ At(s, j + 1) = ">"
        THEN [ok |-> TRUE, pos |-> j + 2, tag |-> name, attrs |-> a.attrs]
        ELSE IF At(s, j) = ">"
        THEN LET c == ParseContent(s, j + 1, name)
             IN  IF c = 0 THEN Failed
                 ELSE [ok |-> TRUE, pos |-> c, tag |-> name, attrs |-> a.attrs]
        ELSE Failed

\* out is one well-formed element named tag, carrying exactly the attributes attr
WellFormed(out, tag, attr) ==
    LET e == ParseElement(out, 1)
    IN  e.ok /\ e.pos = Len(out) + 1 /\ e.tag = tag /\ e.attrs = attr

---------------------------------------------------------------------------
(* Properties of the tree *)

Ids == 1..Len(objs)

\* the values the children of o were copied from, in the order of the list
ChildOrigins(o) == [i \in 1..Len(objs[o].children) |-> objs[objs[o].children[i]].from]

RECURSIVE InOrder(_, _, _)
\* the blocks occur in out one after the other, from index i on
InOrder(out, blocks, i) ==
    \/ blocks = <<>>
    \/ \E j \in i..Len(out) :
        /\ OccursAt(out, Head(blocks), j)
        /\ InOrder(out, Tail(blocks), j + Len(Head(blocks)))

ChildBlocks(o, indent_level) ==
    [i \in 1..Len(objs[o].children) |-> Serialize(objs[o].children[i], indent_level + 1)]

EmitsChildrenInOrder(o) ==
    Serialize(o, 0) # Overflow => InOrder(Serialize(o, 0), ChildBlocks(o, 0), 1)

Levels == {0, 1}

OpenTag(o, indent_level) ==
    Tabs(indent_level) \o <<"<">> \o Tag(objs[o].kind) \o to_string_attrib(objs[o].attr)

\* to_string of a node without children: the tag, self-closed, nothing after
LeafShape(o, indent_level) ==
    LET out == Serialize(o, indent_level)
    IN  /\ EndsWith(out, <<" ", "/", ">">>)
        /\ out = OpenTag(o, indent_level) \o <<" ", "/", ">">>

\* to_string of a node with children: an open tag, each child at
\* indent_level + 1 on a line of its own, the closing tag at indent_level
ParentShape(o, indent_level) ==
    LET out == Serialize(o, indent_level)
        tag == Tag(objs[o].kind)
    IN  /\ ~EndsWith(out, <<"/", ">">>)
        /\ IsPrefix(OpenTag(o, indent_level) \o <<">", "\n">>, out)
        /\ EndsWith(out, <<"\n">> \o Tabs(indent_level) \o <<"<", "/">> \o tag \o <<">">>)
        /\ \A i \in 1..Len(objs[o].children) :
              LET block == ChildBlocks(o, indent_level)[i]
              IN  /\ IsPrefix(Tabs(indent_level + 1) \o <<"<">>, block)
                  /\ Contains(out, <<"\n">> \o block \o <<"\n">>)

Shape(o, indent_level) ==
    Serialize(o, indent_level) # Overflow =>
        IF objs[o].children = <<>> THEN LeafShape(o, indent_level)
        ELSE ParentShape(o, indent_level)

RECURSIVE Descendants(_, _)
\* the objects reached from the set S by following children, S excluded
\* unless reached again
Descendants(S, seen) ==
    LET next == {objs[p].children[i] : <<p, i>> \in
                    {<<p, i>> \in S \X Ids : i <= Len(objs[p].children)}}
    IN  IF next \subseteq seen THEN seen ELSE Descendants(next \ seen, seen \cup next)

\* C3: no node is reachable from itself by following children, and
\* to_string on every node terminates.
C3_AcyclicAndTerminates ==
    \A o \in Ids : o \notin Descendants({o}, {}) /\ Serialize(o, 0) # Overflow

\* C8: to_string of any node is one well-formed element named by the node's
\* tag, with each attribute once as name="value".
C8_WellFormedMarkup ==
    \A o \in Ids : WellFormed(Serialize(o, 0), Tag(objs[o].kind), objs[o].attr)

\* the places (parent, index) of the children lists that hold object h
Places(h) == {<<p, i>> \in Ids \X Ids :
                 i <= Len(objs[p].children) /\ objs[p].children[i] = h}

\* C10: every stored node object appears in exactly one children list,
\* exactly once.
C10_ExclusiveOwnership ==
    \A h \in Ids : objs[h].heap => Cardinality(Places(h)) = 1

---------------------------------------------------------------------------
(* The Path: attr["d"] (has_d: the key is present) and the start point *)

\* the (x, y) the callers pass to start and line_to: T = int and T = float
PathArgs ==
    { <<Num("int", 0), Num("int", 0)>>, <<Num("int", 10), Num("int", 10)>>,
      <<Num("int", 0), Num("int", 10)>>,
      <<Num("float", 0), Num("float", 0)>>, <<Num("float", 10), Num("float", 30)>> }

FloatArgs == {a \in PathArgs : a[1].type = "float"}

\* what a read of an uninitialised float may give, in quarters
Garbage == {0, -6}

\* Path::start
start(p, x, y) ==
    [p EXCEPT !.d = <<"M", " ">> \o ToText(x) \o <<" ">> \o ToText(y),
              !.has_d = TRUE,
              !.x_start = ToFloat(x),
              !.y_start = ToFloat(y),
              !.init = TRUE]

\* a line_to whose else branch assigns instead of appending
line_to_assigns(p, x, y) ==
    IF ~p.has_d THEN start(p, x, y)
    ELSE [p EXCEPT !.d = <<" ", "L", " ">> \o ToText(x) \o <<" ">> \o ToText(y)]

\* Path::line_to(T x, T y)
line_to(p, x, y) ==
    IF ~p.has_d THEN start(p, x, y)
    ELSE [p EXCEPT !.d = @ \o <<" ", "L", " ">> \o ToText(x) \o <<" ">> \o ToText(y)]

\* Path::to_origin, gx and gy what x_start and y_start read as when they were
\* never assigned
to_origin(p, gx, gy) ==
    line_to(p, Num("float", IF p.init THEN p.x_start ELSE gx),
               Num("float", IF p.init THEN p.y_start ELSE gy))

PathStep(op, p) ==
    /\ calls < MaxCmds
    /\ calls' = calls + 1
    /\ path' = p
    /\ pathOp' = op
    /\ UNCHANGED <<objs, line, lineOp, lineRet>>

PathStart == \E a \in PathArgs : PathStep("start", start(path, a[1], a[2]))

PathLineTo == \E a \in PathArgs : PathStep("line_to", line_to(path, a[1], a[2]))

\* Path::line_to(std::pair<float, float>)
PathLineToPair == \E a \in FloatArgs : PathStep("line_to", line_to(path, a[1], a[2]))

PathToOrigin == \E gx, gy \in Garbage :
    /\ (path.init => gx = 0 /\ gy = 0)
    /\ PathStep("to_origin", to_origin(path, gx, gy))

InitPath ==
    /\ objs = <<>>
    /\ path = PathIdle
    /\ pathOp = "none"
    /\ line = LineIdle
    /\ lineOp = "none"
    /\ lineRet = NoRet
    /\ calls = 0

NextPath == PathStart \/ PathLineTo \/ PathLineToPair \/ PathToOrigin

SpecPath == InitPath /\ [][NextPath]_vars

RECURSIVE Tokens(_)
\* the words of s, split at the blanks
Tokens(s) ==
    IF s = <<>> THEN <<>>
    ELSE LET i == CHOOSE k \in 1..(Len(s) + 1) :
                      /\ k = Len(s) + 1 \/ s[k] = " "
                      /\ \A j \in 1..(k - 1) : s[j] # " "
         IN  <<SubSeq(s, 1, i - 1)>> \o Tokens(SubSeq(s, i + 1, Len(s)))

\* C5 as stated: once d exists, every later start, line_to and to_origin call
\* leaves the previous value of d as a prefix of the new one.
C5_EveryOpAppends == [][path.has_d => IsPrefix(path.d, path'.d)]_vars

\* C5 amended: once d exists, every later line_to and to_origin call leaves
\* the previous value of d as a proper prefix of the new one; start replaces d
\* by the single command "M x y".
C5_LineToAppends ==
    [][path.has_d =>
          /\ pathOp' \in {"line_to", "to_origin"} =>
                IsPrefix(path.d, path'.d) /\ Len(path'.d) > Len(path.d)
          /\ pathOp' = "start" => Len(Tokens(path'.d)) = 3 /\ Head(path'.d) = "M"]_vars

\* to_origin was the last call and it appended to a d that line_to had extended
C5_Witness == pathOp = "to_origin" /\ Len(Tokens(path.d)) = 9

\* C6: when to_origin closes a started path, d ends with a line command whose
\* coordinate pair is, as text, the pair written after "M".
C6_CloseRepeatsStartText ==
    LET t == Tokens(path.d)
        n == Len(t)
    IN  (pathOp = "to_origin" /\ n > 3) =>
            t[1] = <<"M">> /\ SubSeq(t, n - 2, n) = <<<<"L">>, t[2], t[3]>>

---------------------------------------------------------------------------
(* The Line geometry.  Floats are held in quarters and squares in          *)
(* sixteenths; the operations below are computed where that arithmetic is  *)
(* exact (segments parallel to an axis, coordinates and fractions that are *)
(* multiples of a quarter).                                                *)

KX1 == <<"x", "1">>
KX2 == <<"x", "2">>
KY1 == <<"y", "1">>
KY2 == <<"y", "2">>
KWidth == <<"w", "i", "d", "t", "h">>
KHeight == <<"h", "e", "i", "g", "h", "t">>

Digits == {"0", "1", "2", "3", "4", "5", "6", "7", "8", "9"}

DigitVal(c) == CHOOSE n \in 0..9 : Digit(n) = c

RECURSIVE ReadDigits(_, _)
\* the index after the digits that start at i
ReadDigits(s, i) == IF At(s, i) \in Digits THEN ReadDigits(s, i + 1) ELSE i

RECURSIVE NatOf(_)
NatOf(ds) == IF ds = <<>> THEN 0 ELSE NatOf(SubSeq(ds, 1, Len(ds) - 1)) * 10 + DigitVal(ds[Len(ds)])

\* std::stof: an optional sign, digits, an optional fraction; without digits
\* there is no conversion and it throws std::invalid_argument.  The value is
\* in quarters.
stof(s) ==
    LET i == IF At(s, 1) = "-" THEN 2 ELSE 1
        j == ReadDigits(s, i)
        k == IF At(s, j) = "." THEN ReadDigits(s, j + 1) ELSE j
        whole == NatOf(SubSeq(s, i, j - 1))
        frac == IF k > j + 1 THEN SubSeq(s, j + 1, k - 1) \o <<"0">> ELSE <<"0", "0">>
        hundredths == DigitVal(frac[1]) * 10 + DigitVal(frac[2])
        v == whole * Scale + (hundredths * Scale) \div 100
    IN  IF j = i THEN [ok |-> FALSE, v |-> 0]
        ELSE [ok |-> TRUE, v |-> IF i = 2 THEN -v ELSE v]

\* this->attr[k]: operator[] of std::map inserts an empty string for a key
\* that is not there
Subscript(a, k) == IF k \in DOMAIN a THEN a ELSE Put(a, k, <<>>)

\* std::stof(this->attr[k]) throws
Throws(a, k) == ~stof(Subscript(a, k)[k]).ok

RECURSIVE EvalReads(_, _)
\* the accessors x1(), x2(), y1(), y2() called in the order ks, up to the
\* first that throws
EvalReads(a, ks) ==
    IF ks = <<>> THEN [attr |-> a, threw |-> FALSE]
    ELSE IF Throws(a, Head(ks)) THEN [attr |-> Subscript(a, Head(ks)), threw |-> TRUE]
    ELSE EvalReads(a, Tail(ks))

\* the orders in which a build may evaluate the two operands of an operator
Either(k1, k2) == {<<k1, k2>>, <<k2, k1>>}

Perms(K) == {p \in [1..Cardinality(K) -> K] : \A i, j \in DOMAIN p : i # j => p[i] # p[j]}

\* (y2() - y1()) / (x2() - x1()): the four calls are unsequenced
SlopeOrders == Perms({<<"x", "1">>, <<"x", "2">>, <<"y", "1">>, <<"y", "2">>})

\* the accessor calls an operation of Line makes, in each order a build may
\* make them
ReadOrders(op) ==
    CASE op = "x1" -> {<<KX1>>}
      [] op = "x2" -> {<<KX2>>}
      [] op = "y1" -> {<<KY1>>}
      [] op = "y2" -> {<<KY2>>}
      [] op = "get_width"  -> Either(KX1, KX2)
      [] op = "get_height" -> Either(KY1, KY2)
      [] op = "get_slope"  -> SlopeOrders
      [] op = "get_length" ->
            {w \o h : w \in Either(KX1, KX2), h \in Either(KY1, KY2)}
                \cup {h \o w : w \in Either(KX1, KX2), h \in Either(KY1, KY2)}
      [] op = "along" -> {w \o h : w \in Either(KX1, KX2), h \in Either(KY1, KY2)}

\* the four coordinates as x1(), x2(), y1() and y2() return them
Ends(a) == [x1 |-> stof(a[KX1]).v, x2 |-> stof(a[KX2]).v,
            y1 |-> stof(a[KY1]).v, y2 |-> stof(a[KY2]).v]

RECURSIVE SqrtBetween(_, _, _)
\* the largest r in lo..hi with r * r <= n
SqrtBetween(n, lo, hi) ==
    IF lo = hi THEN lo
    ELSE LET mid == (lo + hi + 1) \div 2
         IN  IF mid * mid <= n THEN SqrtBetween(n, mid, hi) ELSE SqrtBetween(n, lo, mid - 1)

\* std::sqrt of a number of sixteenths, in quarters
Sqrt(n) == SqrtBetween(n, 0, n)

\* pow(v, 2) of a number of quarters, in sixteenths
Pow2(v) == v * v

\* a * b, both in quarters
Mul(a, b) == (a * b) \div Scale

\* a / b rounded toward minus infinity, b # 0
Div(a, b) == IF b < 0 THEN (-a) \div (-b) ELSE a \div b

\* Line::get_width
get_width(e) == Abs(e.x2 - e.x1)

\* Line::get_height
get_height(e) == Abs(e.y2 - e.y1)

\* Line::get_length
get_length(e) == Sqrt(Pow2(get_width(e)) + Pow2(get_height(e)))

\* Line::get_slope where x1 # x2, in quarters
get_slope(e) == Div((e.y2 - e.y1) * Scale, e.x2 - e.x1)

\* the test that sends along to the other root
Outside(x_a, e) == (x_a > e.x1 /\ x_a > e.x2) \/ (x_a < e.x1 /\ x_a < e.x2)

\* Line::along, percent in quarters
along(e, percent) ==
    IF e.x1 # e.x2
    THEN LET length  == Mul(percent, get_length(e))
             one     == Scale * Scale
             inverse == (one * one) \div (one + Pow2(get_slope(e)))
             discrim == Sqrt((4 * Pow2(length) * inverse) \div one)
             x_a     == (2 * e.x1 + discrim) \div 2
             x_b     == (2 * e.x1 - discrim) \div 2
             x_pos   == IF Outside(x_a, e) THEN x_b ELSE x_a
             y_pos   == Mul(get_slope(e), x_pos - e.x1) + e.y1
         IN  <<x_pos, y_pos>>
    ELSE IF e.y1 > e.y2
         THEN <<e.x1, e.y1 - Mul(percent, get_length(e))>>
         ELSE <<e.x1, e.y1 + Mul(percent, get_length(e))>>

\* the float arithmetic of the geometry is exact on these segments
AxisParallel(e) == e.x1 = e.x2 \/ e.y1 = e.y2

Value(v) == [NoRet EXCEPT !.tag = "value", !.x = v]
Thrown == [NoRet EXCEPT !.tag = "throw"]
NaN == [NoRet EXCEPT !.tag = "nan"]

\* what an operation of Line returns once every accessor call has returned
LineResult(op, e, percent) ==
    CASE op = "x1" -> Value(e.x1)
      [] op = "x2" -> Value(e.x2)
      [] op = "y1" -> Value(e.y1)
      [] op = "y2" -> Value(e.y2)
      [] op = "get_width"  -> Value(get_width(e))
      [] op = "get_height" -> Value(get_height(e))
      [] op = "get_length" -> Value(get_length(e))
      [] op = "get_slope"  ->
            IF e.x1 # e.x2 THEN Value(get_slope(e))
            ELSE IF e.y1 = e.y2 THEN NaN
            ELSE [NoRet EXCEPT !.tag = "inf", !.x = IF e.y2 > e.y1 THEN 1 ELSE -1]
      [] op = "along" ->
            LET xy == along(e, percent)
            IN  [NoRet EXCEPT !.tag = "pair", !.x = xy[1], !.y = xy[2], !.arg = percent]

\* Element::get_width and Element::get_height, key the attribute they read
ElementDimension(a, key) ==
    IF key \in DOMAIN a
    THEN IF stof(a[key]).ok THEN Value(stof(a[key]).v) ELSE Thrown
    ELSE NaN

\* to_string of the object
LineText(l) == to_string(<<Node(l.kind, l.attr, <<>>)>>, 1, 0, 1)

\* the coordinates the callers pass, in quarters: 0, 3 and 10
Coords == {0, 12, 40}
\* the fractions the callers pass to along, in quarters: -1, 0, 1/4, 1/2, 1, 2
Fractions == {-4, 0, 1, 2, 4, 8}

LineOps == {"x1", "x2", "y1", "y2", "get_width", "get_height", "get_length",
            "get_slope", "along"}

ReadOps == LineOps \cup {"to_string"}

LineKeys == {KX1, KX2, KY1, KY2}

\* Element(std::map) as Line(x1, x2, y1, y2) and Rect(x, y, width, height) call it
LineWith(x1, x2, y1, y2) ==
    [kind |-> "Line",
     attr |-> (KX1 :> FloatToString(x1)) @@ (KX2 :> FloatToString(x2))
                @@ (KY1 :> FloatToString(y1)) @@ (KY2 :> FloatToString(y2))]

RectWith(x, y, width, height) ==
    [kind |-> "Rect",
     attr |-> (<<"x">> :> FloatToString(x)) @@ (<<"y">> :> FloatToString(y))
                @@ (KWidth :> FloatToString(width)) @@ (KHeight :> FloatToString(height))]

LineStep(op, l, ret) ==
    /\ line' = l
    /\ lineOp' = op
    /\ lineRet' = ret
    /\ UNCHANGED <<objs, path, pathOp, calls>>

\* Element::set_attr<float>(key, value): attr[key] = std::to_string(value)
LineSetAttr == \E k \in LineKeys \cup {KWidth, KHeight} : \E v \in Coords :
    /\ k \in LineKeys <=> line.kind = "Line"
    /\ LineStep("set_attr", [line EXCEPT !.attr = Put(@, k, FloatToString(v))], NoRet)

\* x1(), x2(), y1(), y2(), get_width(), get_height(), get_length(),
\* get_slope() and along(percent) of a Line
LineRead == \E op \in LineOps : \E percent \in (IF op = "along" THEN Fractions ELSE {0}) :
  \E ks \in ReadOrders(op) :
    LET r == EvalReads(line.attr, ks)
        e == Ends(Subscript(Subscript(Subscript(Subscript(line.attr, KX1), KX2), KY1), KY2))
    IN  /\ line.kind = "Line"
        /\ (~r.threw /\ op \in {"get_length", "along"}) => AxisParallel(e)
        /\ (~r.threw /\ op = "get_slope" /\ e.x1 # e.x2) => e.y1 = e.y2
        /\ LineStep(op, [line EXCEPT !.attr = r.attr],
                    IF r.threw THEN Thrown ELSE LineResult(op, e, percent))

\* get_width() and get_height() of an Element that does not override them
ElementRead == \E op \in {"get_width", "get_height"} :
    /\ line.kind # "Line"
    /\ LineStep(op, line,
                ElementDimension(line.attr, IF op = "get_width" THEN KWidth ELSE KHeight))

\* to_string()
LineToString == LineStep("to_string", line, [NoRet EXCEPT !.tag = "text", !.text = LineText(line)])

InitLine ==
    /\ objs = <<>>
    /\ path = PathIdle
    /\ pathOp = "none"
    /\ line \in {LineIdle, [kind |-> "Rect", attr |-> EmptyMap]}
            \cup {LineWith(x1, x2, y1, y2) : x1 \in Coords, x2 \in Coords,
                                            y1 \in Coords, y2 \in Coords}
            \cup {RectWith(0, 0, w, h) : w \in Coords, h \in Coords}
    /\ lineOp = "none"
    /\ lineRet = NoRet
    /\ calls = 0

NextLine == LineSetAttr \/ LineRead \/ ElementRead \/ LineToString

SpecLine == InitLine /\ [][NextLine]_vars

\* the attributes an accessor of the object reads
Backing(kind, op) ==
    IF kind = "Line"
    THEN CASE op = "x1" -> {KX1}
           [] op = "x2" -> {KX2}
           [] op = "y1" -> {KY1}
           [] op = "y2" -> {KY2}
           [] op = "get_width"  -> {KX1, KX2}
           [] op = "get_height" -> {KY1, KY2}
           [] OTHER -> LineKeys
    ELSE IF op = "get_width" THEN {KWidth} ELSE {KHeight}

\* C4: an accessor called while one of its backing attributes is not set
\* returns the "undefined" sentinel and does not raise.
C4_MissingGivesSentinel ==
    [][(lineOp' \in LineOps /\ ~(Backing(line.kind, lineOp') \subseteq DOMAIN line.attr))
          => lineRet'.tag = "nan"]_vars

\* C7: along(fraction) on a segment of non-zero length returns
\* (x1 + fraction * (x2 - x1), y1 + fraction * (y2 - y1)).
C7_AlongInterpolates ==
    LET e == Ends(line.attr)
    IN  (lineOp = "along" /\ lineRet.tag = "pair" /\ (e.x1 # e.x2 \/ e.y1 # e.y2)) =>
            /\ lineRet.x = e.x1 + Mul(lineRet.arg, e.x2 - e.x1)
            /\ lineRet.y = e.y1 + Mul(lineRet.arg, e.y2 - e.y1)

\* C9: a read leaves the attributes as they were, whether it returns or
\* throws, and so leaves the output of to_string as it was.
C9_ReadsDoNotMutate ==
    [][lineOp' \in ReadOps => line' = line /\ LineText(line') = LineText(line)]_vars

====
